---- MODULE Spec2Model ----
(***************************************************************************)
(* Model of nodes/ChangeMimeType/ChangeMimeType.node.ts: the execute       *)
(* method of the "Change MIME Type" node and the filename rewrite it       *)
(* performs on each item's binary attachment.                              *)
(*                                                                         *)
(* A JavaScript string is a sequence of one-character strings.             *)
(***************************************************************************)
EXTENDS Naturals, Sequences, FiniteSets

VARIABLES
    items,        \* the array returned by getInputData() (line 102)
    returnItems,  \* line 103
    i,            \* loop index of the for statement (line 105), 0-based
    pc,           \* "loop" | "returned" | "threw" ("idle": execute not called)
    loc,          \* the locals of the latest loop iteration (lines 106-177)
    error,        \* the NodeOperationError thrown, if any
    output,       \* the value execute returned, if any
    currentFileName,      \* rewriter: the filename first handed to it
    normalizedExtension,  \* rewriter: the extension handed to it
    applied               \* rewriter: the rewrites applied so far, in order

vars ==
    <<items, returnItems, i, pc, loc, error, output,
      currentFileName, normalizedExtension, applied>>

\* ---------------------------------------------------------------- bounds
MaxNameLen == 4
MaxExtLen == 2
MaxItems == 2

\* ------------------------------------------------------- JavaScript values
\* JavaScript's undefined: a one-element sequence whose element is no
\* character, so that it differs from every string.
Undefined == <<"undefined">>

\* An optional object: None is undefined, Some(x) is the object x.
None == <<>>
Some(x) == <<x>>

\* v || ''  (lines 110, 152): undefined and '' are both falsy.
OrEmpty(v) == IF v = Undefined \/ v = <<>> THEN <<>> ELSE v

\* The character class [A-Za-z0-9] of the regular expressions (lines 158-169).
Alnum ==
    { "a", "b", "c", "d", "e", "f", "g", "h", "i", "j", "k", "l", "m",
      "n", "o", "p", "q", "r", "s", "t", "u", "v", "w", "x", "y", "z",
      "A", "B", "C", "D", "E", "F", "G", "H", "I", "J", "K", "L", "M",
      "N", "O", "P", "Q", "R", "S", "T", "U", "V", "W", "X", "Y", "Z",
      "0", "1", "2", "3", "4", "5", "6", "7", "8", "9" }

\* Where /\.[A-Za-z0-9]+$/ matches in s: the leftmost position p with a dot
\* at p followed by one or more alphanumerics up to the end; 0 on no match.
extMatch(s) ==
    LET hits == { p \in 1..Len(s) :
                    /\ s[p] = "."
                    /\ p < Len(s)
                    /\ \A k \in (p + 1)..Len(s) : s[k] \in Alnum }
    IN  IF hits = {} THEN 0
        ELSE CHOOSE p \in hits : \A q \in hits : p <= q

\* String.prototype.replace with a string replacement expands the patterns
\* $$, $&, $` and $' of the replacement (GetSubstitution); the regular
\* expressions here have no capture groups, so $1.. and $<name> stay as
\* written.
RECURSIVE getSubstitution(_, _, _, _)
getSubstitution(template, matched, before, after) ==
    IF template = <<>> THEN <<>>
    ELSE IF template[1] = "$" /\ Len(template) >= 2 /\ template[2] = "$"
        THEN <<"$">> \o getSubstitution(SubSeq(template, 3, Len(template)), matched, before, after)
    ELSE IF template[1] = "$" /\ Len(template) >= 2 /\ template[2] = "&"
        THEN matched \o getSubstitution(SubSeq(template, 3, Len(template)), matched, before, after)
    ELSE IF template[1] = "$" /\ Len(template) >= 2 /\ template[2] = "`"
        THEN before \o getSubstitution(SubSeq(template, 3, Len(template)), matched, before, after)
    ELSE IF template[1] = "$" /\ Len(template) >= 2 /\ template[2] = "'"
        THEN after \o getSubstitution(SubSeq(template, 3, Len(template)), matched, before, after)
    ELSE <<template[1]>> \o getSubstitution(Tail(template), matched, before, after)

\* s.replace(/\.[A-Za-z0-9]+$/, replacement)  (lines 159, 169)
replaceExt(s, replacement) ==
    LET p == extMatch(s)
    IN  IF p = 0 THEN s
        ELSE SubSeq(s, 1, p - 1)
             \o getSubstitution(replacement, SubSeq(s, p, Len(s)), SubSeq(s, 1, p - 1), <<>>)

\* s.replace(/\.$/, '')  (line 171)
replaceTrailingDot(s) ==
    IF s # <<>> /\ s[Len(s)] = "." THEN SubSeq(s, 1, Len(s) - 1) ELSE s

\* raw.replace(/^\./, '')  (line 117): only the first character can match;
\* normalizeAllDots is the variant that removes every leading dot.
normalizeAllDots(raw) ==
    LET dots == { k \in 0..Len(raw) : \A j \in 1..k : raw[j] = "." }
        n == CHOOSE k \in dots : \A j \in dots : j <= k
    IN  SubSeq(raw, n + 1, Len(raw))

normalize(raw) ==
    IF raw # <<>> /\ raw[1] = "." THEN Tail(raw) ELSE raw

\* `file${dotExt}`  (lines 164, 174), without and with the default name.
fileDefaultBare(dotExt) == dotExt

fileDefault(dotExt) == <<"f", "i", "l", "e">> \o dotExt

\* The smart branch (lines 156-165), as a variant that differs from the
\* code (it drops a trailing dot before appending) and as the code has it.
smartBaseStripsDot(oldName, dotExt) ==
    IF oldName # <<>> /\ extMatch(oldName) # 0
        THEN replaceExt(oldName, dotExt)
    ELSE IF oldName # <<>>
        THEN replaceTrailingDot(oldName) \o dotExt
    ELSE fileDefault(dotExt)

smartBase(oldName, dotExt) ==
    IF oldName # <<>> /\ extMatch(oldName) # 0
        THEN replaceExt(oldName, dotExt)
    ELSE IF oldName # <<>>
        THEN oldName \o dotExt
    ELSE fileDefault(dotExt)

\* The force branch (lines 166-176), as two variants that differ from the
\* code (one appends without removing the old extension, one leaves the
\* dangling dot) and as the code has it.
forceBaseAppendOnly(oldName, dotExt) ==
    IF oldName # <<>>
        THEN replaceTrailingDot(oldName) \o dotExt
    ELSE fileDefault(dotExt)

forceBaseNoDotStrip(oldName, dotExt) ==
    IF oldName # <<>>
        THEN replaceExt(oldName, <<>>) \o dotExt
    ELSE fileDefault(dotExt)

forceBase(oldName, dotExt) ==
    IF oldName # <<>>
        THEN replaceTrailingDot(replaceExt(oldName, <<>>)) \o dotExt
    ELSE fileDefault(dotExt)

\* The value of cloned.fileName after lines 151-178, from its value before;
\* rewriteAlways is the variant without the test of line 151.
rewriteAlways(fileName, newExtension, filenameHandling) ==
    LET oldName == OrEmpty(fileName)
        dotExt == <<".">> \o newExtension
    IN  IF filenameHandling = "smart"
            THEN smartBase(oldName, dotExt)
        ELSE forceBase(oldName, dotExt)

rewrite(fileName, newExtension, filenameHandling) ==
    LET oldName == OrEmpty(fileName)
        dotExt == <<".">> \o newExtension
    IN  IF filenameHandling = "leave" THEN fileName
        ELSE IF filenameHandling = "smart"
            THEN smartBase(oldName, dotExt)
        ELSE forceBase(oldName, dotExt)

\* ------------------------------------------------------------ input sets
\* All strings over `chars` of length at most n.
RECURSIVE StringsUpTo(_, _)
StringsUpTo(chars, n) ==
    IF n = 0 THEN { <<>> }
    ELSE LET shorter == StringsUpTo(chars, n - 1)
         IN  shorter \cup { Append(s, c) : s \in shorter, c \in chars }

\* Filenames: a letter, the dot, and a character outside [A-Za-z0-9.].
FileNameChars == { "a", ".", "-" }
FileNames == StringsUpTo(FileNameChars, MaxNameLen)

\* Values of the 'newExtension' parameter: a letter, the dot, and the two
\* characters of the replacement pattern $&.
ExtensionChars == { "a", ".", "$", "&" }
RawExtensions == StringsUpTo(ExtensionChars, MaxExtLen + 1)

\* The extensions the rewriter can be handed: normalized and non-empty
\* (lines 117, 140).
Extensions ==
    { x \in { normalize(raw) : raw \in RawExtensions } : x # <<>> /\ Len(x) <= MaxExtLen }

FilenameHandlings == { "leave", "smart", "force" }

\* ------------------------------------------------------------- execute
\* Inputs of execute: the binary property name, MIME types, the filenames
\* and extensions of the incoming attachments, and the values of the
\* 'newExtension' parameter (undefined, empty, a lone dot, with and without
\* leading dots).
PropertyNames == { "data" }
InputMimeTypes == { "text/plain" }
NewMimeTypes == { "application/pdf" }
InputFileNames == { Undefined, <<>>, <<"a", ".", "a">> }
InputFileExtensions == { <<"b">> }
ParamExtensions ==
    { Undefined, <<>>, <<".">>, <<"a">>, <<".", "a">>, <<".", ".", "a">> }

\* IBinaryData: the metadata of one attachment.
BinaryData ==
    [ mimeType : InputMimeTypes,
      fileName : InputFileNames,
      fileExtension : InputFileExtensions ]

\* item.binary: undefined, or an object that may hold an attachment under
\* each property name.
BinaryMaps == [ PropertyNames -> { None } \cup { Some(b) : b \in BinaryData } ]
ItemBinaries == { None } \cup { Some(m) : m \in BinaryMaps }

\* The node parameters getNodeParameter(name, i) returns for one item
\* (lines 107-115).
Parameters ==
    [ binaryPropertyName : PropertyNames,
      newMimeType : NewMimeTypes,
      updateExtension : BOOLEAN,
      newExtension : ParamExtensions,
      filenameHandling : FilenameHandlings,
      skipMissing : BOOLEAN ]

\* Input arrays of n items; the json payload, which execute never reads,
\* is the item's position, so that the order of the output can be observed.
InputsOfLength(n) ==
    { [ k \in 1..n |-> [ json |-> k, binary |-> bs[k] ] ] : bs \in [ 1..n -> ItemBinaries ] }

\* item.binary?.[binaryPropertyName]  (line 120)
binaryOf(item, binaryPropertyName) ==
    IF item.binary = None THEN None ELSE item.binary[1][binaryPropertyName]

\* newExtensionRaw (line 110) and newExtension (line 117)
newExtensionRawOf(p) == OrEmpty(p.newExtension)
newExtensionOf(p) == normalize(newExtensionRawOf(p))

\* cloned after lines 133-136: the clone with the new MIME type.
clonedWithMimeType(binary, p) == [ binary EXCEPT !.mimeType = p.newMimeType ]

\* cloned after lines 139-179.
clonedWithExtension(cloned, p) ==
    IF p.updateExtension
        THEN [ cloned EXCEPT
                 !.fileExtension = newExtensionOf(p),
                 !.fileName = rewrite(@, newExtensionOf(p), p.filenameHandling) ]
    ELSE cloned

\* The locals of one iteration, as they stand when it ends or throws.
locals(p, binary, cloned) ==
    [ i |-> i,
      binaryPropertyName |-> p.binaryPropertyName,
      newMimeType |-> p.newMimeType,
      updateExtension |-> p.updateExtension,
      newExtensionRaw |-> newExtensionRawOf(p),
      filenameHandling |-> p.filenameHandling,
      skipMissing |-> p.skipMissing,
      newExtension |-> newExtensionOf(p),
      binary |-> binary,
      cloned |-> cloned ]

rwVars == <<currentFileName, normalizedExtension, applied>>

Init ==
    /\ items \in UNION { InputsOfLength(n) : n \in 0..MaxItems }
    /\ returnItems = <<>>
    /\ i = 0
    /\ pc = "loop"
    /\ loc = None
    /\ error = None
    /\ output = None
    /\ currentFileName = <<>>
    /\ normalizedExtension = <<>>
    /\ applied = <<>>

\* Lines 121-125: the attachment is missing and skipMissing is set.
\* SkipMissingItemNoPush is the variant that continues without the push.
SkipMissingItemNoPush ==
    \E p \in Parameters :
        /\ pc = "loop"
        /\ i < Len(items)
        /\ binaryOf(items[i + 1], p.binaryPropertyName) = None
        /\ p.skipMissing
        /\ i' = i + 1
        /\ loc' = Some(locals(p, None, None))
        /\ UNCHANGED <<items, returnItems, pc, error, output, rwVars>>

SkipMissingItem ==
    \E p \in Parameters :
        /\ pc = "loop"
        /\ i < Len(items)
        /\ binaryOf(items[i + 1], p.binaryPropertyName) = None
        /\ p.skipMissing
        /\ returnItems' = Append(returnItems, items[i + 1])
        /\ i' = i + 1
        /\ loc' = Some(locals(p, None, None))
        /\ UNCHANGED <<items, pc, error, output, rwVars>>

\* Lines 121-130: the attachment is missing and skipMissing is not set.
\* ThrowMissingBinaryOneBased is the variant that counts items from 1.
ThrowMissingBinaryOneBased ==
    \E p \in Parameters :
        /\ pc = "loop"
        /\ i < Len(items)
        /\ binaryOf(items[i + 1], p.binaryPropertyName) = None
        /\ ~p.skipMissing
        /\ pc' = "threw"
        /\ error' = Some([ message |-> "Item ${i} is missing binary property \"${binaryPropertyName}\".",
                           i |-> i + 1,
                           binaryPropertyName |-> p.binaryPropertyName ])
        /\ loc' = Some(locals(p, None, None))
        /\ UNCHANGED <<items, returnItems, i, output, rwVars>>

ThrowMissingBinary ==
    \E p \in Parameters :
        /\ pc = "loop"
        /\ i < Len(items)
        /\ binaryOf(items[i + 1], p.binaryPropertyName) = None
        /\ ~p.skipMissing
        /\ pc' = "threw"
        /\ error' = Some([ message |-> "Item ${i} is missing binary property \"${binaryPropertyName}\".",
                           i |-> i,
                           binaryPropertyName |-> p.binaryPropertyName ])
        /\ loc' = Some(locals(p, None, None))
        /\ UNCHANGED <<items, returnItems, i, output, rwVars>>

\* Lines 133-145: the attachment is there, the extension is to be updated
\* and the normalized extension is empty. ThrowMissingExtensionAfterUpdate
\* is the variant that assigns cloned.fileExtension before the test.
ThrowMissingExtensionAfterUpdate ==
    \E p \in Parameters :
        /\ pc = "loop"
        /\ i < Len(items)
        /\ binaryOf(items[i + 1], p.binaryPropertyName) # None
        /\ p.updateExtension
        /\ newExtensionOf(p) = <<>>
        /\ pc' = "threw"
        /\ error' = Some([ message |-> "When \"Also Update File Extension\" is enabled, \"New Extension\" must be provided.",
                           i |-> i,
                           binaryPropertyName |-> p.binaryPropertyName ])
        /\ loc' = Some(locals(p, binaryOf(items[i + 1], p.binaryPropertyName),
                              Some([ clonedWithMimeType(binaryOf(items[i + 1], p.binaryPropertyName)[1], p)
                                       EXCEPT !.fileExtension = newExtensionOf(p) ])))
        /\ UNCHANGED <<items, returnItems, i, output, rwVars>>

ThrowMissingExtension ==
    \E p \in Parameters :
        /\ pc = "loop"
        /\ i < Len(items)
        /\ binaryOf(items[i + 1], p.binaryPropertyName) # None
        /\ p.updateExtension
        /\ newExtensionOf(p) = <<>>
        /\ pc' = "threw"
        /\ error' = Some([ message |-> "When \"Also Update File Extension\" is enabled, \"New Extension\" must be provided.",
                           i |-> i,
                           binaryPropertyName |-> p.binaryPropertyName ])
        /\ loc' = Some(locals(p, binaryOf(items[i + 1], p.binaryPropertyName),
                              Some(clonedWithMimeType(binaryOf(items[i + 1], p.binaryPropertyName)[1], p))))
        /\ UNCHANGED <<items, returnItems, i, output, rwVars>>

\* Lines 133-185: the attachment is there and nothing throws. The shallow
\* copy of line 106 shares item.binary with items[i], so the write-back of
\* line 183 also shows in the input item.
UpdateItem ==
    \E p \in Parameters :
        /\ pc = "loop"
        /\ i < Len(items)
        /\ binaryOf(items[i + 1], p.binaryPropertyName) # None
        /\ ~(p.updateExtension /\ newExtensionOf(p) = <<>>)
        /\ LET binary == binaryOf(items[i + 1], p.binaryPropertyName)
               cloned == clonedWithExtension(clonedWithMimeType(binary[1], p), p)
               item == [ items[i + 1] EXCEPT
                           !.binary = Some([ @[1] EXCEPT ![p.binaryPropertyName] = Some(cloned) ]) ]
           IN  /\ items' = [ items EXCEPT ![i + 1] = item ]
               /\ returnItems' = Append(returnItems, item)
               /\ loc' = Some(locals(p, binary, Some(cloned)))
        /\ i' = i + 1
        /\ UNCHANGED <<pc, error, output, rwVars>>

\* Line 188: the loop is over; prepareOutputData wraps the list in one
\* output branch.
Return ==
    /\ pc = "loop"
    /\ i = Len(items)
    /\ pc' = "returned"
    /\ output' = Some(<<returnItems>>)
    /\ UNCHANGED <<items, returnItems, i, loc, error, rwVars>>

Next ==
    \/ SkipMissingItem
    \/ ThrowMissingBinary
    \/ ThrowMissingExtension
    \/ UpdateItem
    \/ Return

Spec == Init /\ [][Next]_vars

\* ------------------------------------------------- the rewriter on its own
\* The filename rewrite of lines 151-177 applied to a filename, and applied
\* again to its own result with the same extension.
InitRewrite ==
    /\ currentFileName \in FileNames \cup { Undefined }
    /\ normalizedExtension \in Extensions
    /\ applied = <<>>
    /\ items = <<>>
    /\ returnItems = <<>>
    /\ i = 0
    /\ pc = "idle"
    /\ loc = None
    /\ error = None
    /\ output = None

execVars == <<items, returnItems, i, pc, loc, error, output>>

RewriteOnce ==
    \E filenameHandling \in FilenameHandlings \ { "leave" } :
        /\ applied = <<>>
        /\ applied' =
              << [ filenameHandling |-> filenameHandling,
                   from |-> currentFileName,
                   to |-> rewrite(currentFileName, normalizedExtension, filenameHandling) ] >>
        /\ UNCHANGED <<currentFileName, normalizedExtension, execVars>>

RewriteAgain ==
    \E filenameHandling \in FilenameHandlings \ { "leave" } :
        /\ Len(applied) = 1
        /\ applied' =
              Append(applied,
                [ filenameHandling |-> filenameHandling,
                  from |-> applied[1].to,
                  to |-> rewrite(applied[1].to, normalizedExtension, filenameHandling) ])
        /\ UNCHANGED <<currentFileName, normalizedExtension, execVars>>

NextRewrite == RewriteOnce \/ RewriteAgain

SpecRewrite == InitRewrite /\ [][NextRewrite]_vars

\* ------------------------------------------------------------ properties
\* s[p..] is a dot followed by one or more characters of [A-Za-z0-9].
IsExtensionAt(s, p) ==
    /\ p \in 1..(Len(s) - 1)
    /\ s[p] = "."
    /\ \A k \in (p + 1)..Len(s) : s[k] \in Alnum

HasExtension(s) == \E p \in 1..Len(s) : IsExtensionAt(s, p)

\* The part of s before its final dot-plus-alphanumerics suffix.
BeforeExtension(s) == SubSeq(s, 1, (CHOOSE p \in 1..Len(s) : IsExtensionAt(s, p)) - 1)

NonEmpty(v) == v # Undefined /\ v # <<>>

\* The latest iteration found the attachment, respectively pushed its item.
Found == loc # None /\ loc[1].binary # None
Pushed == loc # None /\ pc # "threw" /\ Len(returnItems) = loc[1].i + 1
\* The attachment of the item the latest iteration pushed.
PushedBinary == returnItems[loc[1].i + 1].binary[1][loc[1].binaryPropertyName][1]
\* The latest iteration ran the filename rewrite of lines 151-178.
RewriteReached ==
    /\ Found
    /\ Pushed
    /\ loc[1].updateExtension
    /\ loc[1].filenameHandling # "leave"

\* C1 as stated: rewriting with force twice with the same extension gives
\* the same filename as rewriting once, for every filename and extension.
C1_ForceIdempotent ==
    ( /\ Len(applied) = 2
      /\ applied[1].filenameHandling = "force"
      /\ applied[2].filenameHandling = "force" )
    => applied[2].to = applied[1].to

\* C1 as amended: rewriting with force twice gives the same filename as
\* rewriting once when the extension is made of characters of [A-Za-z0-9]
\* only and the filename, without its trailing dot-plus-alphanumerics
\* suffix if it has one, does not end in two dots.
C1_ForceIdempotentOnPlainNames ==
    ( /\ Len(applied) = 2
      /\ applied[1].filenameHandling = "force"
      /\ applied[2].filenameHandling = "force"
      /\ \A k \in 1..Len(normalizedExtension) : normalizedExtension[k] \in Alnum
      /\ LET from == OrEmpty(applied[1].from)
             stem == IF HasExtension(from) THEN BeforeExtension(from) ELSE from
         IN  ~( /\ Len(stem) >= 2
                /\ stem[Len(stem)] = "."
                /\ stem[Len(stem) - 1] = "." ) )
    => applied[2].to = applied[1].to

C1_Witness ==
    /\ Len(applied) = 2
    /\ applied[1].filenameHandling = "force"
    /\ applied[2].filenameHandling = "force"
    /\ normalizedExtension = <<"a">>
    /\ applied[1].from = <<"a", ".", ".", "a">>
    /\ applied[1].to = <<"a", ".", "a">>
    /\ applied[2].to = <<"a", ".", "a">>

\* C2 as stated: whenever the filename rewrite is reached, the extension it
\* uses is non-empty and does not start with a dot.
C2_ExtensionHasNoLeadingDot ==
    RewriteReached
    => /\ loc[1].newExtension # <<>>
       /\ loc[1].newExtension[1] # "."

\* C2 as amended: whenever the filename rewrite is reached, the extension it
\* uses is non-empty and is the raw parameter value without its first
\* character if that is a dot, and the raw value itself otherwise (so it
\* starts with a dot exactly when the raw value starts with two dots).
C2_ExtensionStripsOneDot ==
    RewriteReached
    => /\ loc[1].newExtension # <<>>
       /\ \/ loc[1].newExtensionRaw = <<".">> \o loc[1].newExtension
          \/ /\ loc[1].newExtensionRaw = loc[1].newExtension
             /\ loc[1].newExtension[1] # "."

C2_Witness ==
    /\ RewriteReached
    /\ loc[1].newExtensionRaw = <<".", ".", "a">>
    /\ loc[1].newExtension = <<".", "a">>

\* C3: with smart, a non-empty filename ending in a dot followed by
\* alphanumerics becomes the part before that suffix, then a dot, then the
\* extension.
C3_SmartReplacesExtension ==
    \A k \in DOMAIN applied :
        ( /\ applied[k].filenameHandling = "smart"
          /\ NonEmpty(applied[k].from)
          /\ HasExtension(applied[k].from) )
        => applied[k].to
             = BeforeExtension(applied[k].from) \o <<".">> \o normalizedExtension

\* C4 as stated: with smart, every filename that does not end in a dot
\* followed by alphanumerics becomes itself, then a dot, then the extension.
C4_SmartAppendsAlways ==
    \A k \in DOMAIN applied :
        ( /\ applied[k].filenameHandling = "smart"
          /\ ~HasExtension(OrEmpty(applied[k].from)) )
        => applied[k].to
             = OrEmpty(applied[k].from) \o <<".">> \o normalizedExtension

\* C4 as amended: with smart, every non-empty filename that does not end in
\* a dot followed by alphanumerics becomes itself, then a dot, then the
\* extension.
C4_SmartAppendsToNonEmpty ==
    \A k \in DOMAIN applied :
        ( /\ applied[k].filenameHandling = "smart"
          /\ NonEmpty(applied[k].from)
          /\ ~HasExtension(applied[k].from) )
        => applied[k].to = applied[k].from \o <<".">> \o normalizedExtension

C4_Witness ==
    /\ Len(applied) = 1
    /\ applied[1].filenameHandling = "smart"
    /\ applied[1].from = <<"a", ".">>
    /\ applied[1].to = <<"a", ".", ".">> \o normalizedExtension

\* C5: with force, a non-empty filename loses its trailing
\* dot-plus-alphanumerics suffix if it has one, then one trailing dot if it
\* now ends in one, and gets a dot and the extension appended.
C5_ForceRewrites ==
    \A k \in DOMAIN applied :
        ( /\ applied[k].filenameHandling = "force"
          /\ NonEmpty(applied[k].from) )
        => LET from == applied[k].from
               stem == IF HasExtension(from) THEN BeforeExtension(from) ELSE from
               bare == IF stem # <<>> /\ stem[Len(stem)] = "."
                           THEN SubSeq(stem, 1, Len(stem) - 1)
                       ELSE stem
           IN  applied[k].to = bare \o <<".">> \o normalizedExtension

C5_Witness ==
    /\ Len(applied) = 1
    /\ applied[1].filenameHandling = "force"
    /\ applied[1].from = <<"a", ".", ".", "a">>
    /\ applied[1].to = <<"a", ".">> \o normalizedExtension

\* C6: when the attachment's filename is empty or absent and the extension
\* is updated with smart or force, the new filename is "file." followed by
\* the extension.
C6_EmptyNameDefault ==
    ( /\ RewriteReached
      /\ OrEmpty(loc[1].binary[1].fileName) = <<>> )
    => /\ PushedBinary.fileName = <<"f", "i", "l", "e", ".">> \o loc[1].newExtension
       /\ loc[1].newExtension # <<>>

C6_Witness ==
    /\ RewriteReached
    /\ loc[1].binary[1].fileName = Undefined
    /\ loc[1].filenameHandling = "force"
    /\ PushedBinary.fileName = <<"f", "i", "l", "e", ".", "a">>

\* C7: with leave, the attachment's fileName in the output is its fileName
\* in the input, whether or not the extension is updated.
C7_LeaveKeepsFileName ==
    ( /\ Found
      /\ Pushed
      /\ loc[1].filenameHandling = "leave" )
    => PushedBinary.fileName = loc[1].binary[1].fileName

C7_Witness ==
    /\ Found
    /\ Pushed
    /\ loc[1].filenameHandling = "leave"
    /\ loc[1].updateExtension
    /\ loc[1].binary[1].fileName = <<"a", ".", "a">>
    /\ PushedBinary.fileExtension = <<".", "a">>
    /\ PushedBinary.fileName = <<"a", ".", "a">>

\* C8: an item without the attachment ends execute with an error naming the
\* item's index and no output when skipMissing is off; when it is on, the
\* item is appended unchanged and the loop goes on with the next item.
C8_MissingBinary ==
    ( loc # None /\ loc[1].binary = None )
    => IF loc[1].skipMissing
           THEN /\ pc \in { "loop", "returned" }
                /\ error = None
                /\ i = loc[1].i + 1
                /\ Len(returnItems) = i
                /\ returnItems[i] = items[i]
       ELSE /\ pc = "threw"
            /\ output = None
            /\ error # None
            /\ error[1].message
                 = "Item ${i} is missing binary property \"${binaryPropertyName}\"."
            /\ error[1].i = loc[1].i
            /\ i = loc[1].i

C8_Witness ==
    /\ pc = "threw"
    /\ loc[1].binary = None
    /\ ~loc[1].skipMissing
    /\ error[1].i = 1
    /\ Len(returnItems) = 1

\* C9 as stated: every item for which the extension is to be updated and
\* the normalized extension is empty ends execute with the configuration
\* error.
C9_EmptyExtensionAlwaysFatal ==
    ( /\ loc # None
      /\ loc[1].updateExtension
      /\ loc[1].newExtension = <<>> )
    => /\ pc = "threw"
       /\ error # None
       /\ error[1].message
            = "When \"Also Update File Extension\" is enabled, \"New Extension\" must be provided."

\* C9 as amended: every item that has the named attachment and for which
\* the extension is to be updated and the normalized extension is empty
\* ends execute with the configuration error, raised before the
\* attachment's fileName or fileExtension is changed.
C9_EmptyExtensionFatalWhenFound ==
    ( /\ Found
      /\ loc[1].updateExtension
      /\ loc[1].newExtension = <<>> )
    => /\ pc = "threw"
       /\ output = None
       /\ error # None
       /\ error[1].message
            = "When \"Also Update File Extension\" is enabled, \"New Extension\" must be provided."
       /\ i = loc[1].i
       /\ Len(returnItems) = i
       /\ loc[1].cloned[1].fileName = loc[1].binary[1].fileName
       /\ loc[1].cloned[1].fileExtension = loc[1].binary[1].fileExtension
       /\ binaryOf(items[i + 1], loc[1].binaryPropertyName) = loc[1].binary

C9_Witness ==
    /\ Found
    /\ pc = "threw"
    /\ loc[1].updateExtension
    /\ loc[1].newExtensionRaw = <<".">>
    /\ loc[1].newExtension = <<>>
    /\ loc[1].filenameHandling = "force"

\* C10: items are processed in increasing index order; a returned list has
\* one item per input item in the same order and is returned only when no
\* item raised; when item i raises, nothing is returned and no later item
\* is processed.
C10_AllOrNothingInOrder ==
    /\ i <= Len(items)
    /\ Len(returnItems) = i
    /\ \A k \in 1..Len(returnItems) : returnItems[k].json = items[k].json
    /\ loc # None => loc[1].i = (IF pc = "threw" THEN i ELSE i - 1)
    /\ pc = "loop" => error = None /\ output = None
    /\ pc = "returned" =>
          /\ error = None
          /\ i = Len(items)
          /\ output = Some(<<returnItems>>)
    /\ pc = "threw" =>
          /\ output = None
          /\ error # None
          /\ i < Len(items)
          /\ error[1].i = i

C10_Witness ==
    /\ pc = "threw"
    /\ i = 1
    /\ Len(items) = 2
    /\ Len(returnItems) = 1
    /\ output = None
====
